---- MODULE Spec2Model ----
(***************************************************************************)
(* Admin division join of geoparquet-io:                                   *)
(*   src/geoparquet_io/core/admin_datasets.py          (dataset classes,   *)
(*                                                      factory/registry)  *)
(*   src/geoparquet_io/core/add_admin_divisions_multi.py (the join request)*)
(*                                                                         *)
(* Four specifications share the definitions below:                        *)
(*   SpecLevels   - instances built by the factory and their level methods *)
(*   SpecFactory  - the registry under register_dataset / create           *)
(*   Spec         - one add_admin_divisions_multi request, step by step    *)
(*   SpecJoin     - the query the request builds, evaluated on tables      *)
(***************************************************************************)
EXTENDS Integers, Sequences, FiniteSets, TLC

VARIABLES
    \* ---- AdminDatasetFactory / AdminDataset (admin_datasets.py)
    datasets,       \* AdminDatasetFactory._datasets: identifier -> class
    dataset,        \* the instance the last successful constructor call returned
    ret,            \* outcome of the last call: a return value or a raised exception
    nreg,           \* number of register_dataset calls made (bounded)
    \* ---- add_admin_divisions_multi (add_admin_divisions_multi.py)
    pc,             \* position of the request in the function body
    req,            \* the arguments of the call
    env,            \* the files and the engine the call finds
    loc,            \* the function's local variables
    con,            \* the DuckDB connection: "none", "open" or "closed"
    io,             \* the I/O steps performed so far, in order
    out,            \* what click.echo printed that the claims speak of
    \* ---- the join the query denotes (evaluated by the engine)
    inputRows,      \* rows of the input file: their geometries
    adminRows,      \* rows of the admin source: geometry and mapped columns
    outputRows      \* rows the LEFT JOIN wrote

vars == <<datasets, dataset, ret, nreg, pc, req, env, loc, con, io, out,
          inputRows, adminRows, outputRows>>

factoryVars == <<datasets, dataset, ret, nreg>>
requestVars == <<pc, req, env, loc, con, io, out>>
joinVars    == <<inputRows, adminRows, outputRows>>

(***************************************************************************)
(* Bounds of the model                                                     *)
(***************************************************************************)
MaxLevels == 2          \* longest requested level list
MaxRegister == 1        \* register_dataset calls in one run
MaxRows == 3            \* input rows plus admin rows of a join

(***************************************************************************)
(* Python values                                                           *)
(***************************************************************************)
None == "None"

\* Python truthiness of an Optional[str]: None and "" are falsy.
Truthy(s) == s # None /\ s # ""

\* A locator (path or URL) is the sequence of its characters, so that
\* str.startswith is computed; past the scheme the rest of a locator is kept
\* as one element.  None in a locator's place is NoSource, "" is <<>>.
NoSource == <<"None">>
TruthyLocator(s) == s # NoSource /\ s # <<>>

StartsWith(s, prefix) ==
    Len(s) >= Len(prefix) /\ SubSeq(s, 1, Len(prefix)) = prefix

HttpPrefix  == <<"h", "t", "t", "p", ":", "/", "/">>
HttpsPrefix == <<"h", "t", "t", "p", "s", ":", "/", "/">>
S3Prefix    == <<"s", "3", ":", "/", "/">>

Range(s) == {s[i] : i \in 1..Len(s)}

SeqsUpTo(S, n) == UNION {[1..k -> S] : k \in 0..n}

\* the k-th smallest member of a set of positions
Nth(S, k) == CHOOSE i \in S : Cardinality({j \in S : j <= i}) = k

RECURSIVE NotIn(_, _)
\* the list comprehension [x for x in s if x not in container]
NotIn(s, container) ==
    IF s = <<>> THEN <<>>
    ELSE IF Head(s) \in Range(container) THEN NotIn(Tail(s), container)
         ELSE <<Head(s)>> \o NotIn(Tail(s), container)

(***************************************************************************)
(* The classes of admin_datasets.py                                        *)
(***************************************************************************)
Base     == "AdminDataset"
Current  == "CurrentAdminDataset"
GAUL     == "GAULAdminDataset"
Overture == "OvertureAdminDataset"
Custom   == "CustomAdminDataset"
NotADatasetClass == "dict"      \* any class outside the AdminDataset hierarchy

Subclasses == {Base, Current, GAUL, Overture, Custom}
Classes    == Subclasses \cup {NotADatasetClass}

\* issubclass(cls, AdminDataset)
IsSubclassOfAdminDataset(cls) == cls \in Subclasses

\* The @abstractmethod names of AdminDataset (lines 38-97 and 174-186).
ContractAbstract ==
    {"get_dataset_name", "get_default_source", "get_available_levels",
     "get_level_column_mapping", "get_geometry_column", "get_bbox_column",
     "configure_s3"}

\* The contract's methods that AdminDataset itself implements.
ContractConcrete ==
    {"get_source", "is_remote", "validate_levels", "get_partition_columns",
     "get_read_parquet_options", "get_subtype_filter", "prepare_data_source"}

\* The abstract names each class body overrides.
Overrides(cls) ==
    CASE cls = Current  -> ContractAbstract
      [] cls = GAUL     -> ContractAbstract
      [] cls = Overture -> ContractAbstract
      [] cls = Custom   -> ContractAbstract \ {"configure_s3"}
      [] OTHER          -> {}

\* cls.__abstractmethods__ as ABCMeta computes it: the inherited abstract
\* names the class does not override.
AbstractMethods(cls) ==
    IF IsSubclassOfAdminDataset(cls) THEN ContractAbstract \ Overrides(cls) ELSE {}

\* The keyword parameters __init__ requires (no default).
RequiredInitArgs(cls) ==
    IF cls = Custom THEN {"source_path", "partition_columns"} ELSE {}

NoDataset ==
    [cls |-> None, source_path |-> NoSource, verbose |-> FALSE,
     partition_columns |-> <<>>, geometry_column |-> None, bbox_column |-> None]

\* AdminDataset.__init__ (and CustomAdminDataset.__init__ for the last three fields)
NewInstance(cls, source_path, verbose, pcols, geom, bbox) ==
    [cls |-> cls, source_path |-> source_path, verbose |-> verbose,
     partition_columns |-> pcols, geometry_column |-> geom, bbox_column |-> bbox]

get_dataset_name(self) ==
    CASE self.cls = Current  -> "Current (source.coop countries)"
      [] self.cls = GAUL     -> "GAUL L2 Admin Boundaries"
      [] self.cls = Overture -> "Overture Maps Divisions"
      [] self.cls = Custom   -> "Custom boundaries dataset"

get_available_levels(self) ==
    CASE self.cls = Current  -> <<"country">>
      [] self.cls = GAUL     -> <<"continent", "country", "department">>
      [] self.cls = Overture -> <<"country", "region">>
      [] self.cls = Custom   -> self.partition_columns

\* a dict: a function from its key set
get_level_column_mapping(self) ==
    CASE self.cls = Current  -> [l \in {"country"} |-> "country"]
      [] self.cls = GAUL     ->
            [l \in {"continent", "country", "department"} |->
                CASE l = "continent"  -> "continent"
                  [] l = "country"    -> "gaul0_name"
                  [] l = "department" -> "gaul2_name"]
      [] self.cls = Overture ->
            [l \in {"country", "region"} |->
                IF l = "country" THEN "country" ELSE "names['primary']"]
      [] self.cls = Custom   -> [c \in Range(self.partition_columns) |-> c]

get_geometry_column(self) ==
    IF self.cls = Custom THEN self.geometry_column ELSE "geometry"

get_bbox_column(self) ==
    CASE self.cls = Current  -> "bbox"
      [] self.cls = GAUL     -> "geometry_bbox"
      [] self.cls = Overture -> "bbox"
      [] self.cls = Custom   -> self.bbox_column

\* configure_s3: the statements the method executes on the connection
configure_s3(self) ==
    CASE self.cls = Current  ->
            <<"SET s3_endpoint='data.source.coop'", "SET s3_url_style='path'",
              "SET s3_use_ssl=true">>
      [] self.cls = GAUL     ->
            <<"SET s3_endpoint='data.source.coop'", "SET s3_url_style='path'",
              "SET s3_use_ssl=true">>
      [] self.cls = Overture -> <<"SET s3_region='us-west-2'">>

\* get_read_parquet_options: a dict, as a list of (option, value) pairs
get_read_parquet_options(self) ==
    IF self.cls = Overture THEN << <<"hive_partitioning", 1>> >> ELSE <<>>

\* get_subtype_filter: None, or the predicate subtype IN (<subtypes>) with
\* one subtype per requested level that level_to_subtype knows
get_subtype_filter(self, levels) ==
    IF self.cls # Overture THEN [column |-> None, values |-> <<>>]
    ELSE LET subtypes == SelectSeq(levels, LAMBDA l : l \in {"country", "region"})
         IN  IF subtypes # <<>>
             THEN [column |-> "subtype", values |-> subtypes]
             ELSE [column |-> None, values |-> <<>>]

\* a return value, or the exception the call raises
Returned(v) == [kind |-> "return", value |-> v]
Raised(exc, detail) == [kind |-> exc, detail |-> detail]

get_default_source(self) ==
    CASE self.cls = Current  ->
            Returned(HttpsPrefix \o <<"data.source.coop/cholmes/admin-boundaries/countries.parquet">>)
      [] self.cls = GAUL     ->
            Returned(S3Prefix \o <<"nlebovits/gaul-l2-admin/by_country/*.parquet">>)
      [] self.cls = Overture ->
            Returned(S3Prefix \o
                     <<"overturemaps-us-west-2/release/2025-10-22.0/theme=divisions/type=division_area/*">>)
      [] self.cls = Custom   ->
            Raised("NotImplementedError", "Custom datasets require source_path to be provided")

get_source(self) ==
    IF TruthyLocator(self.source_path) THEN Returned(self.source_path)
    ELSE get_default_source(self)

\* is_remote raises what get_source raises
is_remote(self) ==
    LET source == get_source(self)
    IN  IF source.kind # "return" THEN source
        ELSE Returned(\/ StartsWith(source.value, HttpPrefix)
                      \/ StartsWith(source.value, HttpsPrefix)
                      \/ StartsWith(source.value, S3Prefix))

\* prepare_data_source as it would be without the os.path.exists check
prepare_data_source_unchecked(self, exists) ==
    LET source == get_source(self)
    IN  IF source.kind # "return" THEN [res |-> source, touched |-> FALSE]
        ELSE [res |-> Returned([quoted |-> source.value]), touched |-> FALSE]

\* AdminDataset.prepare_data_source: `exists` is os.path.exists(source).
\* The reference is the quoted locator; touched says whether the local
\* filesystem was consulted.
prepare_data_source(self, exists) ==
    LET source == get_source(self)
        remote == is_remote(self)
    IN  IF source.kind # "return" THEN [res |-> source, touched |-> FALSE]
        ELSE IF remote.value
        THEN [res |-> Returned([quoted |-> source.value]), touched |-> FALSE]
        ELSE IF ~exists
        THEN [res |-> Raised("ClickException", "Data source file not found"),
              touched |-> TRUE]
        ELSE [res |-> Returned([quoted |-> source.value]), touched |-> TRUE]

\* validate_levels as it would be if it stopped at the first invalid level
validate_levels_first_only(self, levels) ==
    LET available == get_available_levels(self)
        invalid   == NotIn(levels, available)
    IN  IF invalid # <<>>
        THEN Raised("UsageError",
                    [dataset |-> get_dataset_name(self),
                     invalid |-> <<Head(invalid)>>, available |-> available])
        ELSE Returned(None)

\* validate_levels as it would be if the check were left out
validate_levels_unchecked(self, levels) == Returned(None)

\* AdminDataset.validate_levels: None, or UsageError carrying the three parts
\* the message interpolates (dataset name, ', '.join(invalid), ', '.join(available))
validate_levels(self, levels) ==
    LET available == get_available_levels(self)
        invalid   == NotIn(levels, available)
    IN  IF invalid # <<>>
        THEN Raised("UsageError",
                    [dataset |-> get_dataset_name(self),
                     invalid |-> invalid, available |-> available])
        ELSE Returned(None)

\* get_partition_columns as it would be if it followed the dataset's own level
\* order instead of the caller's
get_partition_columns_dataset_order(self, levels) ==
    LET checked == validate_levels(self, levels)
        mapping == get_level_column_mapping(self)
        ordered == SelectSeq(get_available_levels(self), LAMBDA l : l \in Range(levels))
    IN  IF checked.kind # "return" THEN checked
        ELSE Returned([i \in 1..Len(ordered) |-> mapping[ordered[i]]])

get_partition_columns(self, levels) ==
    LET checked == validate_levels(self, levels)
        mapping == get_level_column_mapping(self)
    IN  IF checked.kind # "return" THEN checked
        ELSE IF \E i \in 1..Len(levels) : levels[i] \notin DOMAIN mapping
        THEN Raised("KeyError", "mapping[level]")      \* dict lookup of a missing key
        ELSE Returned([i \in 1..Len(levels) |-> mapping[levels[i]]])

(***************************************************************************)
(* AdminDatasetFactory                                                     *)
(***************************************************************************)
\* _datasets is a dict: a list of (key, class) pairs in insertion order
DefaultDatasets ==
    << <<"current", Current>>, <<"gaul", GAUL>>, <<"overture", Overture>> >>

Keys(d) == [i \in 1..Len(d) |-> d[i][1]]

HasKey(d, k) == \E i \in 1..Len(d) : d[i][1] = k

Lookup(d, k) == d[CHOOSE i \in 1..Len(d) : d[i][1] = k][2]

\* d[k] = v: overwrite in place, or append
Put(d, k, v) ==
    IF HasKey(d, k)
    THEN [i \in 1..Len(d) |-> IF d[i][1] = k THEN <<k, v>> ELSE d[i]]
    ELSE Append(d, <<k, v>>)

get_available_datasets(d) == Keys(d)

\* cls(**kwargs): object.__new__ refuses a class that still has abstract
\* methods, then __init__ binds its parameters
Construct(cls, given, source_path, verbose, pcols, geom, bbox) ==
    IF AbstractMethods(cls) # {}
    THEN Raised("TypeError", "Can't instantiate abstract class")
    ELSE IF ~(RequiredInitArgs(cls) \subseteq given)
    THEN Raised("TypeError", "missing required argument")
    ELSE Returned(NewInstance(cls, source_path, verbose, pcols, geom, bbox))

create(d, dataset_name, source_path, verbose) ==
    IF ~HasKey(d, dataset_name)
    THEN Raised("UsageError",
                [unknown |-> dataset_name, available |-> get_available_datasets(d)])
    ELSE Construct(Lookup(d, dataset_name), {"source_path", "verbose"},
                   source_path, verbose, <<>>, None, None)

create_custom(source_path, pcols, geom, bbox, verbose) ==
    Construct(Custom,
              {"source_path", "partition_columns", "geometry_column",
               "bbox_column", "verbose"},
              source_path, verbose, pcols, geom, bbox)

\* the registry after register_dataset(name, cls) and what the call raised
register_dataset(d, name, cls) ==
    IF ~IsSubclassOfAdminDataset(cls)
    THEN [datasets |-> d, res |-> Raised("TypeError", "must be a subclass of AdminDataset")]
    ELSE [datasets |-> Put(d, name, cls), res |-> Returned(None)]

(***************************************************************************)
(* Inputs of the factory and level calls                                   *)
(***************************************************************************)
DatasetIds == {"current", "gaul", "overture", "mine"}
LocalSource  == <<"/", "d", "a", "t", "a", "/", "admin.parquet">>
RemoteSource == HttpsPrefix \o <<"example.org/admin.parquet">>
HttpSource   == HttpPrefix \o <<"example.org/admin.parquet">>
\* the relative local path https/admin.parquet: no "://" after the scheme word
LookalikeSource == <<"h", "t", "t", "p", "s", "/", "admin.parquet">>
Sources    == {NoSource, <<>>, LocalSource, RemoteSource, HttpSource, LookalikeSource}
LevelNames == {"continent", "country", "department", "region", "province"}
CustomColumns == {"region_name", "country"}
LevelLists == SeqsUpTo(LevelNames, MaxLevels)

NoCall == [op |-> "none"]

FactoryInit ==
    /\ datasets = DefaultDatasets
    /\ dataset = NoDataset
    /\ ret = NoCall
    /\ nreg = 0

\* dataset = AdminDatasetFactory.create(dataset_name, source_path, verbose)
Create(dataset_name, source_path, verbose) ==
    LET r == create(datasets, dataset_name, source_path, verbose)
    IN  /\ ret' = [op |-> "create", id |-> dataset_name, source_path |-> source_path,
                   verbose |-> verbose, before |-> datasets, res |-> r]
        /\ dataset' = IF r.kind = "return" THEN r.value ELSE dataset
        /\ UNCHANGED <<datasets, nreg>>

\* dataset = AdminDatasetFactory.create_custom(...)
CreateCustom(source_path, pcols, geom, bbox, verbose) ==
    LET r == create_custom(source_path, pcols, geom, bbox, verbose)
    IN  /\ ret' = [op |-> "create_custom", source_path |-> source_path,
                   partition_columns |-> pcols, res |-> r]
        /\ dataset' = IF r.kind = "return" THEN r.value ELSE dataset
        /\ UNCHANGED <<datasets, nreg>>

\* AdminDatasetFactory.register_dataset(name, cls)
RegisterDataset(name, cls) ==
    LET r == register_dataset(datasets, name, cls)
    IN  /\ nreg < MaxRegister
        /\ nreg' = nreg + 1
        /\ datasets' = r.datasets
        /\ ret' = [op |-> "register", id |-> name, cls |-> cls,
                   before |-> datasets, res |-> r.res]
        /\ UNCHANGED dataset

\* dataset.validate_levels(levels)
ValidateLevels(levels) ==
    /\ dataset # NoDataset
    /\ ret' = [op |-> "validate_levels", levels |-> levels,
               res |-> validate_levels(dataset, levels)]
    /\ UNCHANGED <<datasets, dataset, nreg>>

\* dataset.get_partition_columns(levels)
GetPartitionColumns(levels) ==
    /\ dataset # NoDataset
    /\ ret' = [op |-> "get_partition_columns", levels |-> levels,
               res |-> get_partition_columns(dataset, levels)]
    /\ UNCHANGED <<datasets, dataset, nreg>>

\* dataset.prepare_data_source(con), with os.path.exists answering `exists`
PrepareDataSource(exists) ==
    /\ dataset # NoDataset
    /\ ret' = [op |-> "prepare_data_source", exists |-> exists,
               res |-> prepare_data_source(dataset, exists)]
    /\ UNCHANGED <<datasets, dataset, nreg>>

\* the request and the join take no part in the factory specifications
RequestOff ==
    /\ pc = "off" /\ req = <<>> /\ env = <<>> /\ loc = <<>>
    /\ con = "none" /\ io = <<>> /\ out = <<>>

JoinOff == inputRows = <<>> /\ adminRows = <<>> /\ outputRows = <<>>

(***************************************************************************)
(* SpecLevels: instances and their level methods                           *)
(***************************************************************************)
LevelsInit == FactoryInit /\ RequestOff /\ JoinOff

LevelsCreate ==
    \E id \in DatasetIds, s \in Sources, v \in BOOLEAN :
        Create(id, s, v) /\ UNCHANGED <<requestVars, joinVars>>

LevelsCreateCustom ==
    \E s \in Sources, p \in SeqsUpTo(CustomColumns, MaxLevels),
       b \in {None, "bbox"}, v \in BOOLEAN :
        CreateCustom(s, p, "geom", b, v) /\ UNCHANGED <<requestVars, joinVars>>

LevelsValidate ==
    \E ls \in LevelLists :
        ValidateLevels(ls) /\ UNCHANGED <<requestVars, joinVars>>

LevelsPartitionColumns ==
    \E ls \in LevelLists :
        GetPartitionColumns(ls) /\ UNCHANGED <<requestVars, joinVars>>

LevelsPrepare ==
    \E e \in BOOLEAN :
        PrepareDataSource(e) /\ UNCHANGED <<requestVars, joinVars>>

LevelsNext ==
    \/ LevelsCreate
    \/ LevelsCreateCustom
    \/ LevelsValidate
    \/ LevelsPartitionColumns
    \/ LevelsPrepare

SpecLevels == LevelsInit /\ [][LevelsNext]_vars

(***************************************************************************)
(* SpecFactory: the registry under register_dataset and create             *)
(***************************************************************************)
FactoryRegister ==
    \E id \in DatasetIds, c \in Classes :
        RegisterDataset(id, c) /\ UNCHANGED <<requestVars, joinVars>>

FactoryNext ==
    \/ FactoryRegister
    \/ LevelsCreate

SpecFactory == LevelsInit /\ [][FactoryNext]_vars

(***************************************************************************)
(* add_admin_divisions_multi                                               *)
(***************************************************************************)
\* common.check_bbox_structure: the report for an input file whose bbox
\* structure is "optimal", "suboptimal" (a bbox column, no covering
\* metadata) or "missing"
check_bbox_structure(bbox) ==
    [status |-> bbox,
     has_bbox_column |-> bbox # "missing",
     bbox_column_name |-> IF bbox = "missing" THEN None ELSE "bbox"]

\* common.add_bbox(input_parquet, "bbox"): the input file afterwards
add_bbox(bbox) == "optimal"

\* the repair as it would be if any input short of optimal were rewritten
RepairsBbox_unless_optimal(dry_run, add_bbox_flag, info) ==
    /\ ~dry_run
    /\ info.status # "optimal"
    /\ add_bbox_flag

\* lines 110-123: the execute branch repairs the input's bbox only when
\* asked to and when the report shows no bbox column
RepairsBbox(dry_run, add_bbox_flag, info) ==
    /\ ~dry_run
    /\ info.status # "optimal"
    /\ add_bbox_flag
    /\ ~info.has_bbox_column

\* the execute branch as it would be if the row count ignored dry_run
CountsRows_always(dry_run) == TRUE

\* line 153: the input row count is read unless this is a dry run
CountsRows(dry_run) == ~dry_run

\* lines 160-168: one select part per (level, column) pair of the zip
admin_select_parts(levels, partition_columns) ==
    LET n == IF Len(levels) < Len(partition_columns)
             THEN Len(levels) ELSE Len(partition_columns)
    IN  [i \in 1..n |->
            [column |-> [table |-> "b", quoted |-> partition_columns[i]],
             alias  |-> <<"admin:", levels[i]>>]]

\* the choice as it would be if the bbox test were always built
UsesBbox_always(input_bbox_col, admin_bbox_col) == TRUE

\* line 171: both bbox column names are truthy
UsesBbox(input_bbox_col, admin_bbox_col) ==
    Truthy(input_bbox_col) /\ Truthy(admin_bbox_col)

\* lines 170-205: the query text, as its parts
build_query(levels, partition_columns, input_url, admin_table_ref, input_geom_col, admin_geom_col, input_bbox_col, admin_bbox_col) ==
    [select_input_star |-> TRUE,
     select_admin |-> admin_select_parts(levels, partition_columns),
     from  |-> input_url,
     join  |-> "LEFT JOIN",
     table |-> admin_table_ref,
     bbox_condition |->
        IF UsesBbox(input_bbox_col, admin_bbox_col)
        THEN [present |-> TRUE, a |-> input_bbox_col, b |-> admin_bbox_col]
        ELSE [present |-> FALSE],
     st_intersects |-> [b |-> admin_geom_col, a |-> input_geom_col]]

NoQuery == [join |-> None]
NoReport == [status |-> None, has_bbox_column |-> FALSE, bbox_column_name |-> None]

InitLoc ==
    [partition_columns |-> <<>>, input_bbox_info |-> NoReport,
     input_bbox_col |-> None, admin_bbox_col |-> None,
     admin_geom_col |-> None, metadata |-> None,
     admin_table_ref |-> [quoted |-> NoSource], query |-> NoQuery]

InitOut == [header |-> FALSE, warning |-> FALSE, query |-> NoQuery, results |-> FALSE]

RequestLevelNames == {"country", "department", "region", "province"}
RequestSources == {NoSource, LocalSource, RemoteSource}

Requests ==
    [dataset_name : DatasetIds,
     levels : SeqsUpTo(RequestLevelNames, MaxLevels) \ {<<>>},
     dataset_source : RequestSources,
     add_bbox_flag : BOOLEAN, dry_run : BOOLEAN, verbose : BOOLEAN]

\* bbox: the input file's bbox structure; admin_exists: whether a local admin
\* path exists; output: the destination file
Envs ==
    [bbox : {"optimal", "suboptimal", "missing"}, bbox_at_call : {None},
     admin_exists : BOOLEAN, output : {"absent"}]

Init ==
    /\ FactoryInit
    /\ JoinOff
    /\ pc = "create"
    /\ req \in Requests
    /\ \E e \in Envs : env = [e EXCEPT !.bbox_at_call = e.bbox]
    /\ loc = InitLoc
    /\ con = "none"
    /\ io = <<>>
    /\ out = InitOut

Raise(exc) == pc' = "raised" /\ ret' = exc

\* line 57 (and the verbose echo of lines 59-62, which calls get_source)
CreateDataset ==
    LET r == create(datasets, req.dataset_name, req.dataset_source, req.verbose)
    IN  /\ pc = "create"
        /\ IF r.kind # "return"
           THEN Raise(r) /\ UNCHANGED dataset
           ELSE /\ dataset' = r.value
                /\ IF req.verbose /\ get_source(r.value).kind # "return"
                   THEN Raise(get_source(r.value))
                   ELSE pc' = "validate" /\ UNCHANGED ret
        /\ UNCHANGED <<datasets, nreg, req, env, loc, con, io, out, joinVars>>

\* lines 64-68
ValidateLevelsStep ==
    LET v == validate_levels(dataset, req.levels)
        p == get_partition_columns(dataset, req.levels)
    IN  /\ pc = "validate"
        /\ IF v.kind # "return" THEN Raise(v) /\ UNCHANGED loc
           ELSE IF p.kind # "return" THEN Raise(p) /\ UNCHANGED loc
           ELSE /\ loc' = [loc EXCEPT !.partition_columns = p.value]
                /\ pc' = "inspect"
                /\ UNCHANGED ret
        /\ UNCHANGED <<datasets, dataset, nreg, req, env, con, io, out, joinVars>>

\* lines 70-81: the input locator, the geometry columns, the bbox report
InspectInput ==
    LET info == check_bbox_structure(env.bbox)
    IN  /\ pc = "inspect"
        /\ io' = io \o <<"safe_file_url", "find_primary_geometry_column",
                          "check_bbox_structure">>
        /\ loc' = [loc EXCEPT !.admin_geom_col = get_geometry_column(dataset),
                              !.input_bbox_info = info,
                              !.input_bbox_col = info.bbox_column_name,
                              !.admin_bbox_col = get_bbox_column(dataset)]
        /\ pc' = "preamble"
        /\ UNCHANGED <<factoryVars, req, env, con, out, joinVars>>

\* lines 83-106: the dry-run header
DryRunHeader ==
    /\ pc = "preamble"
    /\ req.dry_run
    /\ out' = [out EXCEPT !.header = TRUE]
    /\ pc' = "connect"
    /\ UNCHANGED <<factoryVars, req, env, loc, con, io, joinVars>>

\* lines 108-138: metadata, the bbox warning and the bbox repair
FetchMetadata ==
    LET info   == loc.input_bbox_info
        repair == RepairsBbox(req.dry_run, req.add_bbox_flag, info)
        bbox2  == IF repair THEN add_bbox(env.bbox) ELSE env.bbox
        info2  == IF repair THEN check_bbox_structure(bbox2) ELSE info
    IN  /\ pc = "preamble"
        /\ ~req.dry_run
        /\ io' = io \o <<"get_parquet_metadata">>
                    \o (IF repair THEN <<"add_bbox", "check_bbox_structure">> ELSE <<>>)
        /\ env' = [env EXCEPT !.bbox = bbox2]
        /\ loc' = [loc EXCEPT !.metadata = "metadata",
                              !.input_bbox_info = info2,
                              !.input_bbox_col = info2.bbox_column_name]
        /\ out' = [out EXCEPT !.warning = (info.status # "optimal")]
        /\ pc' = "connect"
        /\ UNCHANGED <<factoryVars, req, con, joinVars>>

SessionSetup ==
    <<"INSTALL spatial", "LOAD spatial", "INSTALL httpfs", "LOAD httpfs",
      "SET s3_endpoint='data.source.coop'", "SET s3_url_style='path'",
      "SET s3_use_ssl=true">>

\* lines 140-150: the connection and its setup statements
Connect ==
    /\ pc = "connect"
    /\ con' = "open"
    /\ io' = io \o <<"duckdb.connect">> \o SessionSetup
    /\ pc' = IF CountsRows(req.dry_run) THEN "count" ELSE "prepare"
    /\ UNCHANGED <<factoryVars, req, env, loc, out, joinVars>>

\* lines 141-150 when the engine refuses one of the setup statements
ConnectFails ==
    /\ pc = "connect"
    /\ con' = "open"
    /\ \E k \in 1..Len(SessionSetup) :
          io' = io \o <<"duckdb.connect">> \o SubSeq(SessionSetup, 1, k)
    /\ Raise(Raised("duckdb.Error", "session setup"))
    /\ UNCHANGED <<datasets, dataset, nreg, req, env, loc, out, joinVars>>

\* lines 152-155
CountRows ==
    /\ pc = "count"
    /\ io' = io \o <<"SELECT COUNT(*) FROM input">>
    /\ pc' = "prepare"
    /\ UNCHANGED <<factoryVars, req, env, loc, con, out, joinVars>>

CountRowsFails ==
    /\ pc = "count"
    /\ io' = io \o <<"SELECT COUNT(*) FROM input">>
    /\ Raise(Raised("duckdb.Error", "row count"))
    /\ UNCHANGED <<datasets, dataset, nreg, req, env, loc, con, out, joinVars>>

\* lines 157-158
PrepareSource ==
    LET r == prepare_data_source(dataset, env.admin_exists)
    IN  /\ pc = "prepare"
        /\ io' = IF r.touched THEN io \o <<"os.path.exists">> ELSE io
        /\ IF r.res.kind # "return"
           THEN Raise(r.res) /\ UNCHANGED loc
           ELSE /\ loc' = [loc EXCEPT !.admin_table_ref = r.res.value]
                /\ pc' = "build"
                /\ UNCHANGED ret
        /\ UNCHANGED <<datasets, dataset, nreg, req, env, con, out, joinVars>>

\* lines 160-205
BuildQuery ==
    /\ pc = "build"
    /\ loc' = [loc EXCEPT !.query =
                 build_query(req.levels, loc.partition_columns, "input_url",
                             loc.admin_table_ref, "input_geom_col",
                             loc.admin_geom_col, loc.input_bbox_col,
                             loc.admin_bbox_col)]
    /\ pc' = "emit"
    /\ UNCHANGED <<factoryVars, req, env, con, io, out, joinVars>>

\* lines 207-238: dry run prints the query, closes the connection, returns
DryRunPrint ==
    /\ pc = "emit"
    /\ req.dry_run
    /\ out' = [out EXCEPT !.query = loc.query]
    /\ con' = "closed"
    /\ io' = io \o <<"con.close">>
    /\ pc' = "done"
    /\ ret' = Returned(None)
    /\ UNCHANGED <<datasets, dataset, nreg, req, env, loc, joinVars>>

\* lines 240-254: the query runs and the output is written
WriteOutput ==
    /\ pc = "emit"
    /\ ~req.dry_run
    /\ io' = io \o <<"write_parquet_with_metadata">>
    /\ env' = [env EXCEPT !.output = "written"]
    /\ pc' = "stats"
    /\ UNCHANGED <<factoryVars, req, loc, con, out, joinVars>>

WriteOutputFails ==
    /\ pc = "emit"
    /\ ~req.dry_run
    /\ io' = io \o <<"write_parquet_with_metadata">>
    /\ \E o \in {"absent", "partial"} : env' = [env EXCEPT !.output = o]
    /\ Raise(Raised("duckdb.Error", "join query"))
    /\ UNCHANGED <<datasets, dataset, nreg, req, loc, con, out, joinVars>>

\* lines 256-291: the statistics queries, then close and report
Statistics ==
    /\ pc = "stats"
    /\ io' = io \o <<"stats_query">>
                \o [i \in 1..Len(req.levels) |-> "count_query"]
                \o <<"con.close">>
    /\ con' = "closed"
    /\ out' = [out EXCEPT !.results = TRUE]
    /\ pc' = "done"
    /\ ret' = Returned(None)
    /\ UNCHANGED <<datasets, dataset, nreg, req, env, loc, joinVars>>

StatisticsFails ==
    /\ pc = "stats"
    /\ \E k \in 0..Len(req.levels) :
          io' = io \o <<"stats_query">> \o [i \in 1..k |-> "count_query"]
    /\ Raise(Raised("duckdb.Error", "statistics"))
    /\ UNCHANGED <<datasets, dataset, nreg, req, env, loc, con, out, joinVars>>

Next ==
    \/ CreateDataset
    \/ ValidateLevelsStep
    \/ InspectInput
    \/ DryRunHeader
    \/ FetchMetadata
    \/ Connect
    \/ ConnectFails
    \/ CountRows
    \/ CountRowsFails
    \/ PrepareSource
    \/ BuildQuery
    \/ DryRunPrint
    \/ WriteOutput
    \/ WriteOutputFails
    \/ Statistics
    \/ StatisticsFails

Spec == Init /\ [][Next]_vars

(***************************************************************************)
(* The join the query denotes                                              *)
(*                                                                         *)
(* A geometry is a non-empty set of points with integer coordinates (a     *)
(* MULTIPOINT); its bbox column holds its axis-aligned extent.             *)
(***************************************************************************)
Coords == {0, 1}

Geoms ==
    {{<<x, y>>} : x \in Coords, y \in Coords}
        \cup {{<<0, 0>>, <<1, 1>>}, {<<0, 1>>, <<1, 0>>}, Coords \X Coords}

\* the boundary geometries: the two diagonals, the left edge and the whole
\* square
AdminGeoms ==
    {{<<0, 0>>, <<1, 1>>}, {<<0, 1>>, <<1, 0>>}, {<<0, 0>>, <<0, 1>>}, Coords \X Coords}

Min(S) == CHOOSE m \in S : \A n \in S : m <= n
Max(S) == CHOOSE m \in S : \A n \in S : m >= n

\* the bbox struct of a geometry
Extent(g) ==
    [xmin |-> Min({p[1] : p \in g}), xmax |-> Max({p[1] : p \in g}),
     ymin |-> Min({p[2] : p \in g}), ymax |-> Max({p[2] : p \in g})]

\* the engine's ST_Intersects: the geometries share a point
ST_Intersects(g1, g2) == g1 \cap g2 # {}

\* the bbox test as it would be with strict comparisons
bbox_condition_strict(a, b) ==
    /\ a.xmin < b.xmax
    /\ a.xmax > b.xmin
    /\ a.ymin < b.ymax
    /\ a.ymax > b.ymin

\* lines 177-180: the four comparisons on the two bbox structs
bbox_condition(a, b) ==
    /\ a.xmin <= b.xmax
    /\ a.xmax >= b.xmin
    /\ a.ymin <= b.ymax
    /\ a.ymax >= b.ymin

\* lines 187-192 and 203-204: the ON clause of the query for input row a and
\* admin row b
on_clause(query, a, b) ==
    /\ query.bbox_condition.present =>
            bbox_condition(Extent(a.geom), Extent(b.geom))
    /\ ST_Intersects(b.geom, a.geom)

NULL == "NULL"

\* the admin rows an input row joins with, by position
Matches(query, a, admin) ==
    {j \in 1..Len(admin) : on_clause(query, a, admin[j])}

RECURSIVE Flatten(_)
Flatten(ss) == IF ss = <<>> THEN <<>> ELSE Head(ss) \o Flatten(Tail(ss))

\* the positions of a set, ascending
Ascending(S) == [k \in 1..Cardinality(S) |-> Nth(S, k)]

\* a join that would drop the input rows without a match
inner_join(query, input, admin) ==
    Flatten([i \in 1..Len(input) |->
        LET m == Ascending(Matches(query, input[i], admin))
        IN  [k \in 1..Len(m) |->
                [input |-> i,
                 admin |-> [c \in 1..Len(query.select_admin) |->
                              admin[m[k]].attrs[query.select_admin[c].column.quoted]]]]])

\* a join that would keep only the first match of each input row
left_join_first_match(query, input, admin) ==
    [i \in 1..Len(input) |->
        LET m == Ascending(Matches(query, input[i], admin))
        IN  [input |-> i,
             admin |-> [c \in 1..Len(query.select_admin) |->
                          IF m = <<>> THEN NULL
                          ELSE admin[m[1]].attrs[query.select_admin[c].column.quoted]]]]

\* lines 182-205: SELECT a.*, <admin parts> FROM input a LEFT JOIN admin b ON ...
\* Each output row carries its input row (a.*) and one value per admin part.
left_join(query, input, admin) ==
    Flatten([i \in 1..Len(input) |->
        LET m == Ascending(Matches(query, input[i], admin))
        IN  IF m = <<>>
            THEN << [input |-> i,
                     admin |-> [c \in 1..Len(query.select_admin) |-> NULL]] >>
            ELSE [k \in 1..Len(m) |->
                    [input |-> i,
                     admin |-> [c \in 1..Len(query.select_admin) |->
                                  admin[m[k]].attrs[query.select_admin[c].column.quoted]]]]])

\* lines 258-269: COUNT(*) and COUNT(CASE WHEN <any admin column> IS NOT NULL)
\* over the rows of the output file
stats_query(levels, output) ==
    [total_features |-> Len(output),
     features_with_admin |->
        Cardinality({k \in 1..Len(output) :
                        \E c \in 1..Len(levels) : output[k].admin[c] # NULL})]

\* lines 273-280: COUNT(DISTINCT "admin:<level>") over the non-null values,
\* for the c-th requested level
count_query(c, output) ==
    Cardinality({output[k].admin[c] : k \in 1..Len(output)} \ {NULL})

\* the columns of each dataset's boundary table (class docstrings and
\* column mappings); Overture's names is a struct column
AdminSchema(cls) ==
    CASE cls = Current  -> {"country", "geometry", "bbox"}
      [] cls = GAUL     -> {"continent", "gaul0_name", "gaul2_name",
                            "geometry", "geometry_bbox"}
      [] cls = Overture -> {"country", "subtype", "names", "geometry", "bbox"}

\* the engine binds every quoted column of the select list to the table
Binds(query, cls) ==
    \A c \in 1..Len(query.select_admin) :
        query.select_admin[c].column.quoted \in AdminSchema(cls)

(***************************************************************************)
(* SpecJoin: the query of a valid request, evaluated on small tables       *)
(***************************************************************************)
JoinRequests ==
    { [dataset_name |-> "current",  levels |-> <<"country">>],
      [dataset_name |-> "gaul",     levels |-> <<"country", "department">>],
      [dataset_name |-> "overture", levels |-> <<"country">>],
      [dataset_name |-> "overture", levels |-> <<"region">>] }

AdminValues == {NULL, "A"}

\* the name columns an admin row carries
AttrColumns(cls) ==
    CASE cls = Current  -> {"country"}
      [] cls = GAUL     -> {"gaul0_name", "gaul2_name"}
      [] cls = Overture -> {"country", "subtype"}

\* Overture's subtype column tells country rows from region rows
Subtypes == {"country", "region"}

AttrValues(cls) ==
    {f \in [AttrColumns(cls) -> AdminValues \cup Subtypes] :
        \A col \in AttrColumns(cls) :
            IF col = "subtype" THEN f[col] \in Subtypes ELSE f[col] \in AdminValues}

InputTables(n) == [1..n -> [geom : Geoms]]
AdminTables(cls, n) == [1..n -> [geom : AdminGeoms, attrs : AttrValues(cls)]]

JoinInit ==
    /\ datasets = DefaultDatasets /\ nreg = 0 /\ ret = NoCall
    /\ con = "open" /\ io = <<>> /\ out = InitOut
    /\ pc = "build"
    /\ \E r \in JoinRequests, b \in {"optimal", "missing"} :
          /\ req = [dataset_name |-> r.dataset_name, levels |-> r.levels,
                    dataset_source |-> NoSource, add_bbox_flag |-> FALSE,
                    dry_run |-> FALSE, verbose |-> FALSE]
          /\ dataset = create(DefaultDatasets, r.dataset_name, NoSource, FALSE).value
          /\ env = [bbox |-> b, bbox_at_call |-> b, admin_exists |-> FALSE,
                    output |-> "absent"]
          /\ loc = [InitLoc EXCEPT
                      !.partition_columns = get_partition_columns(dataset, r.levels).value,
                      !.input_bbox_info = check_bbox_structure(b),
                      !.input_bbox_col = check_bbox_structure(b).bbox_column_name,
                      !.admin_bbox_col = get_bbox_column(dataset),
                      !.admin_geom_col = get_geometry_column(dataset),
                      !.admin_table_ref = prepare_data_source(dataset, FALSE).res.value]
          /\ \E n \in 1..MaxRows :
                /\ inputRows \in InputTables(n)
                /\ \E k \in 0..(MaxRows - n) : adminRows \in AdminTables(dataset.cls, k)
    /\ outputRows = <<>>

\* write_parquet_with_metadata runs the query: the output holds its rows
JoinExecute ==
    /\ pc = "emit"
    /\ Binds(loc.query, dataset.cls)
    /\ outputRows' = left_join(loc.query, inputRows, adminRows)
    /\ env' = [env EXCEPT !.output = "written"]
    /\ pc' = "stats"
    /\ UNCHANGED <<factoryVars, req, loc, con, io, out, inputRows, adminRows>>

\* the engine rejects a query whose select list names a column the admin
\* table does not have
JoinBinderError ==
    /\ pc = "emit"
    /\ ~Binds(loc.query, dataset.cls)
    /\ Raise(Raised("duckdb.BinderException", "column not found"))
    /\ UNCHANGED <<datasets, dataset, nreg, req, env, loc, con, io, out, joinVars>>

JoinBuildQuery == BuildQuery

\* lines 256-291: the statistics over the output file, close, report
JoinStatistics ==
    /\ pc = "stats"
    /\ io' = io \o <<"stats_query">>
                \o [i \in 1..Len(req.levels) |-> "count_query"]
                \o <<"con.close">>
    /\ con' = "closed"
    /\ out' = [stats |-> stats_query(req.levels, outputRows),
               unique_counts |-> [c \in 1..Len(req.levels) |->
                                    <<req.levels[c], count_query(c, outputRows)>>]]
              @@ [out EXCEPT !.results = TRUE]
    /\ pc' = "done"
    /\ ret' = Returned(None)
    /\ UNCHANGED <<datasets, dataset, nreg, req, env, loc, joinVars>>

JoinNext ==
    \/ JoinBuildQuery
    \/ JoinExecute
    \/ JoinBinderError
    \/ JoinStatistics

SpecJoin == JoinInit /\ [][JoinNext]_vars

(***************************************************************************)
(* Properties of the level methods (SpecLevels)                            *)
(***************************************************************************)
\* positions of the requested levels the dataset does not offer
AbsentAt(self, levels) ==
    {i \in 1..Len(levels) : levels[i] \notin Range(get_available_levels(self))}

\* C1: validate_levels raises a usage error exactly when some requested level
\* is not offered by the dataset; the error names every such level, once per
\* request position and in request order, and lists the dataset's available
\* levels; with every level offered it returns normally.
C1_ValidateLevelsNamesEveryInvalid ==
    ret.op = "validate_levels" =>
        LET absent == AbsentAt(dataset, ret.levels)
        IN  IF absent = {}
            THEN ret.res = Returned(None)
            ELSE /\ ret.res.kind = "UsageError"
                 /\ Len(ret.res.detail.invalid) = Cardinality(absent)
                 /\ \A k \in 1..Cardinality(absent) :
                        ret.res.detail.invalid[k] = ret.levels[Nth(absent, k)]
                 /\ ret.res.detail.available = get_available_levels(dataset)

\* two invalid levels against Overture: both are named, 'province' first
C1_Witness ==
    /\ ret.op = "validate_levels"
    /\ dataset.cls = Overture
    /\ ret.levels = <<"province", "department">>
    /\ ret.res.kind = "UsageError"
    /\ ret.res.detail.invalid = <<"province", "department">>
    /\ ret.res.detail.available = <<"country", "region">>

\* C7: for requested levels that are all available, get_partition_columns
\* returns one column per requested level, the i-th being the mapped column of
\* the i-th requested level (caller order, repeats kept); with an unavailable
\* level it raises validate_levels' usage error and returns nothing.
C7_PartitionColumnsInCallerOrder ==
    ret.op = "get_partition_columns" =>
        IF AbsentAt(dataset, ret.levels) = {}
        THEN /\ ret.res.kind = "return"
             /\ Len(ret.res.value) = Len(ret.levels)
             /\ \A i \in 1..Len(ret.levels) :
                    ret.res.value[i] = get_level_column_mapping(dataset)[ret.levels[i]]
        ELSE /\ ret.res.kind = "UsageError"
             /\ ret.res = validate_levels(dataset, ret.levels)

\* GAUL asked for department before country: the columns come back in that order
C7_Witness ==
    /\ ret.op = "get_partition_columns"
    /\ dataset.cls = GAUL
    /\ ret.levels = <<"department", "country">>
    /\ ret.res = Returned(<<"gaul2_name", "gaul0_name">>)

NoDuplicates(s) == \A i, j \in 1..Len(s) : s[i] = s[j] => i = j

LevelsWellFormed(self) ==
    /\ get_available_levels(self) # <<>>
    /\ NoDuplicates(get_available_levels(self))
    /\ DOMAIN get_level_column_mapping(self) = Range(get_available_levels(self))

\* C8: every dataset that is constructed - through create, or through
\* create_custom from any caller-supplied partition-column list - is an
\* instance whose available levels are non-empty and unique and are exactly
\* the keys of its level-to-column mapping.
C8_EveryConstructedDatasetHasLevels ==
    /\ dataset # NoDataset => LevelsWellFormed(dataset)
    /\ ret.op = "create_custom" =>
            ret.res.kind = "return" /\ LevelsWellFormed(ret.res.value)

\* C11: a Custom dataset built without a source (None or "") is an instance
\* whose get_default_source, get_source, is_remote and prepare_data_source
\* all raise the same error kind - the unsupported-operation error of
\* get_default_source - without consulting the filesystem.
C11_SourcelessCustomFailsAlike ==
    (ret.op = "create_custom" /\ ~TruthyLocator(ret.source_path)) =>
        /\ ret.res.kind = "return"
        /\ ret.res.value.cls = Custom
        /\ get_default_source(ret.res.value).kind = "NotImplementedError"
        /\ get_source(ret.res.value) = get_default_source(ret.res.value)
        /\ is_remote(ret.res.value) = get_default_source(ret.res.value)
        /\ \A e \in BOOLEAN :
              /\ prepare_data_source(ret.res.value, e).res
                    = get_default_source(ret.res.value)
              /\ ~prepare_data_source(ret.res.value, e).touched

\* the locator begins with one of the three remote schemes, character by
\* character
BeginsRemote(s) ==
    \E p \in {HttpPrefix, HttpsPrefix, S3Prefix} :
        /\ Len(s) >= Len(p)
        /\ \A i \in 1..Len(p) : s[i] = p[i]

\* the override when one was supplied, else the class default
ResolvedSource(self) ==
    IF self.source_path \notin {NoSource, <<>>} THEN self.source_path
    ELSE get_default_source(self).value

\* C12: prepare_data_source goes by the resolved source: a source beginning
\* with http://, https:// or s3:// is returned as a reference without asking
\* the filesystem; any other source raises the file-not-found error when the
\* path does not exist and is returned as a reference when it does, so no
\* reference to an absent local path is ever returned.
C12_PrepareSourceByResolvedSource ==
    ret.op = "prepare_data_source" =>
        LET src == ResolvedSource(dataset)
        IN  IF BeginsRemote(src)
            THEN /\ ret.res.res = Returned([quoted |-> src])
                 /\ ~ret.res.touched
            ELSE /\ ret.res.touched
                 /\ IF ret.exists
                    THEN ret.res.res = Returned([quoted |-> src])
                    ELSE ret.res.res.kind = "ClickException"

\* GAUL overridden with a local path that does not exist: file not found,
\* although the class default is remote
C12_Witness ==
    /\ ret.op = "prepare_data_source"
    /\ dataset.cls = GAUL
    /\ dataset.source_path = LocalSource
    /\ ~ret.exists
    /\ ret.res.res.kind = "ClickException"
    /\ ret.res.touched

(***************************************************************************)
(* Properties of the registry (SpecFactory)                                *)
(***************************************************************************)
\* a class satisfies the Admin Dataset contract when it derives from
\* AdminDataset, leaves no contract method abstract and can be built from
\* (source_path, verbose)
Conforms(cls) ==
    /\ IsSubclassOfAdminDataset(cls)
    /\ AbstractMethods(cls) = {}
    /\ RequiredInitArgs(cls) \subseteq {"source_path", "verbose"}

\* C9: create raises a usage error naming the identifier and listing every
\* registered identifier when the identifier is not registered; otherwise it
\* returns an instance of the registered class carrying the source override
\* and the verbose flag; the registry is as it was before the call.
C9_CreateUnknownOrInstance ==
    ret.op = "create" =>
        /\ datasets = ret.before
        /\ IF ~HasKey(ret.before, ret.id)
           THEN ret.res = Raised("UsageError",
                                 [unknown |-> ret.id, available |-> Keys(ret.before)])
           ELSE /\ ret.res.kind = "return"
                /\ ret.res.value.cls = Lookup(ret.before, ret.id)
                /\ ret.res.value.source_path = ret.source_path
                /\ ret.res.value.verbose = ret.verbose

\* C10: register_dataset with a class that does not satisfy the contract
\* raises and leaves the registry as it was; with a conforming class it puts
\* the class under the identifier; and create of a registered identifier
\* returns an instance with no contract method left abstract.
C10_RegisterThenCreate ==
    /\ ret.op = "register" =>
            IF Conforms(ret.cls)
            THEN ret.res.kind = "return" /\ datasets = Put(ret.before, ret.id, ret.cls)
            ELSE ret.res.kind = "TypeError" /\ datasets = ret.before
    /\ (ret.op = "create" /\ HasKey(ret.before, ret.id)) =>
            /\ ret.res.kind = "return"
            /\ AbstractMethods(ret.res.value.cls) = {}

(***************************************************************************)
(* Properties of the request (Spec)                                        *)
(***************************************************************************)
Did(step) == step \in Range(io)

\* C4: in a dry run the input's metadata is never fetched, its rows are never
\* counted, no bbox column is added to it, the join is never executed and no
\* output is written; a dry run that returns has printed the query, with one
\* admin:<level> alias per requested level, in order, and the ST_Intersects
\* test.
C4_DryRunTouchesNothing ==
    req.dry_run =>
        /\ ~Did("get_parquet_metadata")
        /\ ~Did("SELECT COUNT(*) FROM input")
        /\ ~Did("add_bbox")
        /\ ~Did("write_parquet_with_metadata")
        /\ ~Did("stats_query")
        /\ loc.metadata = None
        /\ env.bbox = env.bbox_at_call
        /\ env.output = "absent"
        /\ pc = "done" =>
              /\ out.query # NoQuery
              /\ out.query = loc.query
              /\ Len(out.query.select_admin) = Len(req.levels)
              /\ \A i \in 1..Len(req.levels) :
                    out.query.select_admin[i].alias = <<"admin:", req.levels[i]>>
              /\ "st_intersects" \in DOMAIN out.query

\* the gaul dry run of country and department, add_bbox set on an input
\* without a bbox column, has returned
C4_Witness ==
    /\ req.dry_run /\ req.add_bbox_flag
    /\ req.dataset_name = "gaul"
    /\ req.levels = <<"country", "department">>
    /\ env.bbox_at_call = "missing"
    /\ pc = "done"
    /\ out.query.select_admin[2].alias = <<"admin:", "department">>

\* C5: whenever the request has ended, by return or by exception, the
\* connection it opened is closed.
C5_SessionClosedOnEveryExit ==
    pc \in {"done", "raised"} => con # "open"

UnknownDataset == ~HasKey(datasets, req.dataset_name)

InvalidLevel ==
    /\ HasKey(datasets, req.dataset_name)
    /\ AbsentAt(NewInstance(Lookup(datasets, req.dataset_name),
                            NoSource, FALSE, <<>>, None, None),
                req.levels) # {}

\* C6: a request naming an unknown dataset or a level the dataset does not
\* offer never gets past validation: it performs no I/O step, opens no
\* connection, leaves the input and the output files as they were, and ends
\* in a usage error.
C6_UsageErrorsBeforeAnyIO ==
    (UnknownDataset \/ InvalidLevel) =>
        /\ pc \in {"create", "validate", "raised"}
        /\ pc = "raised" => ret.kind = "UsageError"
        /\ io = <<>>
        /\ con = "none"
        /\ env.bbox = env.bbox_at_call
        /\ env.output = "absent"
        /\ loc = InitLoc

\* an execute-mode, verbose request for a level Overture lacks has raised
C6_Witness ==
    /\ InvalidLevel
    /\ req.dataset_name = "overture" /\ req.levels = <<"province">>
    /\ req.verbose /\ ~req.dry_run /\ req.add_bbox_flag
    /\ env.bbox_at_call = "missing"
    /\ pc = "raised"
    /\ ret.kind = "UsageError"

ValidRequest == ~UnknownDataset /\ ~InvalidLevel

\* C13: a dry run with a valid dataset identifier and valid levels executes
\* no statement on the engine, does not ask the filesystem about the admin
\* source, and never ends in an exception.
C13_DryRunNeverFails ==
    (req.dry_run /\ ValidRequest) =>
        /\ pc # "raised"
        /\ Range(io) \cap Range(SessionSetup) = {}
        /\ ~Did("os.path.exists")

\* the positions of io holding the statements ss, in a row
RunsAt(ss, k) ==
    /\ k + Len(ss) - 1 <= Len(io)
    /\ \A i \in 1..Len(ss) : io[k + i - 1] = ss[i]

\* C14: in the execute branch, once the session is set up, the statements of
\* the dataset's configure_s3 have run on the connection after the generic
\* setup statements and before the row count, the source preparation and
\* the join.
C14_DatasetConfiguresSession ==
    (~req.dry_run /\ pc \in {"count", "prepare", "build", "emit", "stats", "done"}) =>
        \E g \in 1..Len(io), k \in 1..Len(io) :
            /\ RunsAt(<<"duckdb.connect">> \o SessionSetup, g)
            /\ k = g + 1 + Len(SessionSetup)
            /\ RunsAt(configure_s3(dataset), k)

\* C15: the query that was built carries the bbox test exactly when the
\* latest bbox report of the input names a bbox column and the dataset has
\* one; the test is on those two columns; with or without it the ON clause
\* carries ST_Intersects on the two geometry columns; and a failed join is
\* not attempted a second time.
C15_BboxTestOnlyConjoined ==
    loc.query # NoQuery =>
        /\ loc.input_bbox_info = check_bbox_structure(env.bbox)
        /\ loc.query.bbox_condition.present <=>
                /\ loc.input_bbox_info.bbox_column_name \notin {None, ""}
                /\ get_bbox_column(dataset) \notin {None, ""}
        /\ loc.query.bbox_condition.present =>
                /\ loc.query.bbox_condition.a = loc.input_bbox_info.bbox_column_name
                /\ loc.query.bbox_condition.b = get_bbox_column(dataset)
        /\ loc.query.st_intersects =
                [b |-> get_geometry_column(dataset), a |-> "input_geom_col"]
        /\ Cardinality({i \in 1..Len(io) : io[i] = "write_parquet_with_metadata"}) <= 1

\* an executed join on an input without a bbox column, not repaired: the
\* query went out with ST_Intersects alone
C15_Witness ==
    /\ ~req.dry_run /\ ~req.add_bbox_flag
    /\ env.bbox_at_call = "missing"
    /\ pc = "stats"
    /\ ~loc.query.bbox_condition.present
    /\ loc.query.st_intersects.b = "geometry"

\* the one case in which the input file is rewritten
MustRepair ==
    /\ ~req.dry_run
    /\ req.add_bbox_flag
    /\ ~check_bbox_structure(env.bbox_at_call).has_bbox_column

\* C18: the input file changes only in an execute-mode request with add_bbox
\* set on an input whose report shows no bbox column; then add_bbox runs
\* before the connection is opened, the bbox check is run again right after
\* it, the refreshed report is not "missing", and the refreshed column name
\* is the one the predicate is built on.  Otherwise add_bbox never runs and
\* the input stays as it was.
C18_InputRewrittenOnlyForRepair ==
    /\ ~MustRepair => env.bbox = env.bbox_at_call /\ ~Did("add_bbox")
    /\ ~Did("get_parquet_metadata") => env.bbox = env.bbox_at_call /\ ~Did("add_bbox")
    /\ (MustRepair /\ Did("get_parquet_metadata")) =>
            /\ \E k \in 1..Len(io) :
                  /\ RunsAt(<<"add_bbox", "check_bbox_structure">>, k)
                  /\ \A j \in 1..k : io[j] # "duckdb.connect"
            /\ env.bbox = add_bbox(env.bbox_at_call)
            /\ loc.input_bbox_info = check_bbox_structure(env.bbox)
            /\ loc.input_bbox_info.status # "missing"
            /\ loc.input_bbox_col = loc.input_bbox_info.bbox_column_name
            /\ loc.query # NoQuery =>
                  /\ loc.query.bbox_condition.present
                  /\ loc.query.bbox_condition.a = loc.input_bbox_info.bbox_column_name

\* add_bbox set on an input without a bbox column, executed to the end: the
\* file now has one and the join used it
C18_Witness ==
    /\ MustRepair
    /\ env.bbox_at_call = "missing"
    /\ pc = "done"
    /\ Did("add_bbox")
    /\ env.bbox # "missing"
    /\ loc.query.bbox_condition.present
    /\ loc.query.bbox_condition.a = "bbox"

(***************************************************************************)
(* Properties of the join (SpecJoin)                                       *)
(***************************************************************************)
Joined == pc = "stats" /\ env.output = "written"

\* the query the same request builds when the input has no bbox column
ExactOnlyQuery ==
    build_query(req.levels, loc.partition_columns, "input_url", loc.admin_table_ref,
                "input_geom_col", loc.admin_geom_col, None, loc.admin_bbox_col)

\* the admin rows whose geometry intersects input row i
Intersecting(i) ==
    {j \in 1..Len(adminRows) : ST_Intersects(adminRows[j].geom, inputRows[i].geom)}

\* C2: when both sides have a bbox column, the ON clause with the bbox test
\* accepts exactly the (input row, admin row) pairs whose geometries
\* intersect, and the rows written are those of the exact-only query on the
\* same tables.
C2_BboxPrefilterKeepsResult ==
    (Joined /\ loc.query.bbox_condition.present) =>
        /\ ~ExactOnlyQuery.bbox_condition.present
        /\ \A i \in 1..Len(inputRows) :
              Matches(loc.query, inputRows[i], adminRows) = Intersecting(i)
        /\ outputRows = left_join(ExactOnlyQuery, inputRows, adminRows)

\* a bbox-prefiltered join over a pair that intersects on a shared corner
\* point and a pair whose bboxes overlap though the geometries do not meet
C2_Witness ==
    /\ Joined
    /\ loc.query.bbox_condition.present
    /\ \E i \in 1..Len(inputRows), j \in 1..Len(adminRows) :
          /\ bbox_condition(Extent(inputRows[i].geom), Extent(adminRows[j].geom))
          /\ ~ST_Intersects(adminRows[j].geom, inputRows[i].geom)
    /\ \E i \in 1..Len(inputRows), j \in 1..Len(adminRows) :
          /\ ST_Intersects(adminRows[j].geom, inputRows[i].geom)
          /\ Extent(inputRows[i].geom).xmin = Extent(adminRows[j].geom).xmax

HasAdminValue(r) == \E c \in 1..Len(r.admin) : r.admin[c] # NULL

AtMostOnePolygonEach ==
    \A i \in 1..Len(inputRows) : Cardinality(Intersecting(i)) <= 1

\* what C3 says of every join, whatever the admin rows hold
LeftOuterJoin ==
    /\ \A i \in 1..Len(inputRows) :
          \E k \in 1..Len(outputRows) : outputRows[k].input = i
    /\ \A k \in 1..Len(outputRows) :
          /\ outputRows[k].input \in 1..Len(inputRows)
          /\ Len(outputRows[k].admin) = Len(req.levels)
          /\ Intersecting(outputRows[k].input) = {} => ~HasAdminValue(outputRows[k])
    /\ AtMostOnePolygonEach => Len(outputRows) = Len(inputRows)
    /\ \A c \in 1..Len(req.levels) :
          Cardinality({outputRows[k].admin[c] : k \in 1..Len(outputRows)} \ {NULL})
              <= Len(adminRows)

\* C3 as stated: a left outer join, and with at most one intersecting polygon
\* per feature the rows with a non-null admin column are exactly the rows of
\* the features that intersect a polygon.
C3_AsStated ==
    Joined =>
        /\ LeftOuterJoin
        /\ AtMostOnePolygonEach =>
              \A k \in 1..Len(outputRows) :
                  HasAdminValue(outputRows[k]) <=> Intersecting(outputRows[k].input) # {}

\* C3 as amended: a left outer join, and with at most one intersecting
\* polygon per feature the rows with a non-null admin column are exactly the
\* rows of the features that intersect a polygon holding a non-null value in
\* one of the requested columns.
C3_LeftJoinKeepsEveryInputRow ==
    Joined =>
        /\ LeftOuterJoin
        /\ AtMostOnePolygonEach =>
              \A k \in 1..Len(outputRows) :
                  HasAdminValue(outputRows[k]) <=>
                      \E j \in Intersecting(outputRows[k].input) :
                          \E c \in 1..Len(req.levels) :
                              adminRows[j].attrs[loc.partition_columns[c]] # NULL

\* two features and one named polygon: one feature inside it, one outside
\* every polygon; two rows come out, the second all null
C3_Witness ==
    /\ Joined
    /\ Len(inputRows) = 2 /\ Len(adminRows) = 1
    /\ Intersecting(1) = {1} /\ Intersecting(2) = {}
    /\ Len(outputRows) = 2
    /\ HasAdminValue(outputRows[1])
    /\ ~HasAdminValue(outputRows[2])

\* C16: in a join against Overture the admin source is read with the
\* dataset's read options and only the rows passing its subtype filter for
\* the requested levels take part: an admin row matched with an input row has
\* one of the requested levels' subtypes.
C16_OvertureRowFilterApplied ==
    (pc \in {"stats", "done"} /\ dataset.cls = Overture) =>
        LET filter == get_subtype_filter(dataset, req.levels)
        IN  /\ filter.column # None =>
                  \A i \in 1..Len(inputRows) :
                      \A j \in Matches(loc.query, inputRows[i], adminRows) :
                          adminRows[j].attrs[filter.column] \in Range(filter.values)
            /\ loc.admin_table_ref =
                  [quoted |-> get_source(dataset).value,
                   options |-> get_read_parquet_options(dataset)]

\* what a mapped column expression denotes: a column, or a field of a
\* struct column
ColumnRef(expr) ==
    IF expr = "names['primary']" THEN [column |-> "names", field |-> "primary"]
    ELSE [column |-> expr, field |-> None]

\* what the engine reads in b."<text>": the column named by the whole text
QuotedIdentifier(text) == [column |-> text, field |-> None]

\* C17: the select list is a.* followed by one part per requested level, in
\* request order, the i-th aliased admin:<levels[i]> and selecting what the
\* dataset's mapped column for levels[i] denotes - for a nested-field
\* accessor the field of the struct column - so that the engine binds it.
C17_SelectListPerLevel ==
    loc.query # NoQuery =>
        /\ loc.query.select_input_star
        /\ Len(loc.query.select_admin) = Len(req.levels)
        /\ \A i \in 1..Len(req.levels) :
              /\ loc.query.select_admin[i].alias = <<"admin:", req.levels[i]>>
              /\ loc.query.select_admin[i].column.table = "b"
              /\ QuotedIdentifier(loc.query.select_admin[i].column.quoted)
                    = ColumnRef(get_level_column_mapping(dataset)[req.levels[i]])
        /\ Binds(loc.query, dataset.cls)
        /\ pc # "raised"

RECURSIVE SumTo(_, _)
\* f[1] + ... + f[n]
SumTo(f, n) == IF n = 0 THEN 0 ELSE f[n] + SumTo(f, n - 1)

\* the rows the output holds for input row i
RowsOf(i) == {k \in 1..Len(outputRows) : outputRows[k].input = i}

\* C19: the output holds max(1, k) rows for an input row intersecting k admin
\* rows, so its length is the sum of max(1, k) over the input; and the
\* statistics report the number of output rows as the total and the number
\* of output rows with a non-null admin column as the covered features.
C19_OneRowPerMatch ==
    /\ pc \in {"stats", "done"} =>
          /\ \A i \in 1..Len(inputRows) :
                Cardinality(RowsOf(i)) = Max({1, Cardinality(Intersecting(i))})
          /\ Len(outputRows) =
                SumTo([i \in 1..Len(inputRows) |->
                          Max({1, Cardinality(Intersecting(i))})], Len(inputRows))
          /\ Len(outputRows) >= Len(inputRows)
    /\ pc = "done" =>
          /\ out.stats.total_features = Len(outputRows)
          /\ out.stats.features_with_admin =
                Cardinality({k \in 1..Len(outputRows) : HasAdminValue(outputRows[k])})

\* one feature on the border of two named polygons: two output rows for one
\* input row, and the statistics count 2 of 2 features covered
C19_Witness ==
    /\ pc = "done"
    /\ Len(inputRows) = 1
    /\ Cardinality(Intersecting(1)) = 2
    /\ Len(outputRows) = 2
    /\ out.stats.total_features = 2
    /\ out.stats.features_with_admin = 2

====
